---- MODULE Spec2Model ----
(***************************************************************************)
(* The wallet search engine of src/src/wallet_searcher.py                   *)
(* (GrokWalletSearcher): the two search agents with their retry loops, the  *)
(* per-wallet pipeline, the semaphore-gated task and the batch driver, on   *)
(* an asyncio event loop.                                                   *)
(*                                                                         *)
(* Texts (responses, handles, error descriptions) are sequences of          *)
(* one-character strings, so that lower(), strip(), substring tests and the *)
(* regular expressions of the extractor are computed, not assumed.  The     *)
(* Python value None of an Optional[str] is the empty sequence; the code    *)
(* tests these values by truthiness, which treats '' and None alike.        *)
(***************************************************************************)
EXTENDS Integers, Sequences, FiniteSets, TLC

(* ------------------------------ characters ----------------------------- *)

UpperSeq ==
  <<"A","B","C","D","E","F","G","H","I","J","K","L","M",
    "N","O","P","Q","R","S","T","U","V","W","X","Y","Z">>

LowerSeq ==
  <<"a","b","c","d","e","f","g","h","i","j","k","l","m",
    "n","o","p","q","r","s","t","u","v","w","x","y","z">>

Digits == {"0","1","2","3","4","5","6","7","8","9"}

\* [A-Za-z0-9_]
WordChars ==
  {UpperSeq[i] : i \in 1..26} \cup {LowerSeq[i] : i \in 1..26}
    \cup Digits \cup {"_"}

\* \s
SpaceChars == {" ", "\n", "\t"}

\* [:\s]
SepChars == {":"} \cup SpaceChars

\* str.lower() on one character
LowerChar(c) ==
  IF \E i \in 1..26 : UpperSeq[i] = c
  THEN LowerSeq[CHOOSE i \in 1..26 : UpperSeq[i] = c]
  ELSE c

\* str.lower()
Lower(s) == [i \in 1..Len(s) |-> LowerChar(s[i])]

\* the number of leading characters of s[i..] that lie in class
RunLen(s, i, class) ==
  CHOOSE n \in 0..(Len(s) + 1 - i) :
    /\ \A k \in 0..(n - 1) : s[i + k] \in class
    /\ (i + n > Len(s) \/ s[i + n] \notin class)

\* str.strip()
Strip(s) ==
  LET lead == RunLen(s, 1, SpaceChars)
      last == IF lead = Len(s) THEN 0
              ELSE CHOOSE j \in 1..Len(s) :
                     /\ s[j] \notin SpaceChars
                     /\ \A k \in (j + 1)..Len(s) : s[k] \in SpaceChars
  IN  SubSeq(s, lead + 1, last)

\* s[i..] starts with sub
StartsAt(s, sub, i) ==
  /\ i >= 1
  /\ i + Len(sub) - 1 <= Len(s)
  /\ \A k \in 1..Len(sub) : s[i + k - 1] = sub[k]

\* sub in s
Contains(s, sub) == \E i \in 1..(Len(s) + 1) : StartsAt(s, sub, i)

\* \b at the gap before position i of s (positions 1..Len(s)+1)
WordBoundary(s, i) ==
  LET before == i > 1 /\ s[i - 1] \in WordChars
      after == i <= Len(s) /\ s[i] \in WordChars
  IN  before # after

Min(a, b) == IF a <= b THEN a ELSE b

\* None of an Optional[str]
NoText == << >>

(* --------------------------- Response Extractor ------------------------ *)

\* label[:\s]+@?([A-Za-z0-9_]{1,15}) tried at position i under re.IGNORECASE:
\* the capture, or NoText when the pattern does not match there.  The three
\* character classes are disjoint, so the greedy match is the only one.
LabelHandleAt(s, label, i) ==
  LET j == i + Len(label)
      n == IF j <= Len(s) + 1 THEN RunLen(s, j, SepChars) ELSE 0
      k == j + n
      g == IF k <= Len(s) /\ s[k] = "@" THEN k + 1 ELSE k
      m == IF g <= Len(s) + 1 THEN RunLen(s, g, WordChars) ELSE 0
  IN  IF StartsAt(Lower(s), label, i) /\ n >= 1 /\ m >= 1
      THEN SubSeq(s, g, g + Min(m, 15) - 1)
      ELSE NoText

\* @([A-Za-z0-9_]{1,15}) tried at position i
MentionAt(s, i) ==
  LET m == IF i + 1 <= Len(s) + 1 THEN RunLen(s, i + 1, WordChars) ELSE 0
  IN  IF i <= Len(s) /\ s[i] = "@" /\ m >= 1
      THEN SubSeq(s, i + 1, i + Min(m, 15))
      ELSE NoText

\* one entry of the patterns list: "label" rules carry their label
HandlePatterns ==
  << [kind |-> "label", label |-> <<"u","s","e","r","n","a","m","e">>],
     [kind |-> "mention", label |-> << >>],
     [kind |-> "label", label |-> <<"h","a","n","d","l","e">>],
     [kind |-> "label", label |-> <<"t","w","i","t","t","e","r">>] >>

PatternAt(s, p, i) ==
  IF p.kind = "label" THEN LabelHandleAt(s, p.label, i) ELSE MentionAt(s, i)

\* re.search(pattern, content, re.IGNORECASE).group(1): the leftmost match
SearchHandle(s, p) ==
  IF \E i \in 1..Len(s) : PatternAt(s, p, i) # NoText
  THEN PatternAt(s, p, CHOOSE i \in 1..Len(s) :
                         /\ PatternAt(s, p, i) # NoText
                         /\ \A h \in 1..(i - 1) : PatternAt(s, p, h) = NoText)
  ELSE NoText

\* a capture passes 1 <= len(username) <= 15 and ^[A-Za-z0-9_]+$
ValidHandle(u) ==
  /\ 1 <= Len(u) /\ Len(u) <= 15
  /\ \A i \in 1..Len(u) : u[i] \in WordChars

\* the first pattern, in list order, that matches with a valid capture
extract_username(content) ==
  LET hits == {n \in 1..Len(HandlePatterns) :
                 ValidHandle(SearchHandle(content, HandlePatterns[n]))}
  IN  IF hits = {} THEN NoText
      ELSE SearchHandle(content,
             HandlePatterns[CHOOSE n \in hits : \A h \in hits : n <= h])

\* \b(w1|w2|...)\b matches somewhere in s
HasWord(s, words) ==
  \E w \in words : \E i \in 1..Len(s) :
    /\ StartsAt(s, w, i)
    /\ WordBoundary(s, i)
    /\ WordBoundary(s, i + Len(w))

HighWords ==
  { <<"h","i","g","h">>, <<"s","t","r","o","n","g">>, <<"c","l","e","a","r">>,
    <<"d","e","f","i","n","i","t","e">>, <<"c","e","r","t","a","i","n">> }

MediumWords ==
  { <<"m","e","d","i","u","m">>, <<"m","o","d","e","r","a","t","e">>,
    <<"s","o","m","e","w","h","a","t">>, <<"p","a","r","t","i","a","l">> }

LowWords ==
  { <<"l","o","w">>, <<"w","e","a","k">>, <<"m","i","n","i","m","a","l">>,
    <<"u","n","c","e","r","t","a","i","n">> }

NoneWords ==
  { <<"n","o","n","e">>, <<"n","o">>, <<"f","a","l","s","e">>,
    <<"n","o","t"," ","f","o","u","n","d">> }

\* confidence_patterns: the label and the alternatives of the group, in order
ConfidencePatterns ==
  << [label |-> <<"c","o","n","f","i","d","e","n","c","e">>,
      levels |-> << <<"h","i","g","h">>, <<"m","e","d","i","u","m">>,
                    <<"l","o","w">>, <<"n","o","n","e">> >>],
     [label |-> <<"c","o","n","f","i","d","e","n","c","e">>,
      levels |-> << <<"s","t","r","o","n","g">>, <<"m","o","d","e","r","a","t","e">>,
                    <<"w","e","a","k">>, <<"n","o","n","e">> >>],
     [label |-> <<"l","e","v","e","l">>,
      levels |-> << <<"h","i","g","h">>, <<"m","e","d","i","u","m">>,
                    <<"l","o","w">>, <<"n","o","n","e">> >>] >>

\* label[:\s]+(l1|l2|l3|l4) tried at position i: the captured level or NoText
LevelAt(s, p, i) ==
  LET j == i + Len(p.label)
      n == IF j <= Len(s) + 1 THEN RunLen(s, j, SepChars) ELSE 0
      hits == {a \in 1..Len(p.levels) : StartsAt(s, p.levels[a], j + n)}
  IN  IF StartsAt(s, p.label, i) /\ n >= 1 /\ hits # {}
      THEN p.levels[CHOOSE a \in hits : \A b \in hits : a <= b]
      ELSE NoText

SearchLevel(s, p) ==
  IF \E i \in 1..Len(s) : LevelAt(s, p, i) # NoText
  THEN LevelAt(s, p, CHOOSE i \in 1..Len(s) :
                       /\ LevelAt(s, p, i) # NoText
                       /\ \A h \in 1..(i - 1) : LevelAt(s, p, h) = NoText)
  ELSE NoText

\* the level name a captured word stands for
LevelName(level) ==
  IF level \in {<<"h","i","g","h">>, <<"s","t","r","o","n","g">>} THEN "High"
  ELSE IF level \in {<<"m","e","d","i","u","m">>,
                     <<"m","o","d","e","r","a","t","e">>} THEN "Medium"
  ELSE IF level \in {<<"l","o","w">>, <<"w","e","a","k">>} THEN "Low"
  ELSE IF level = <<"n","o","n","e">> THEN "None"
  ELSE "null"

\* an extractor that looks for the Medium keywords before the High ones
extract_confidence_level_medium_first(content) ==
  LET s == Lower(content)
      hits == {n \in 1..Len(ConfidencePatterns) :
                 LevelName(SearchLevel(s, ConfidencePatterns[n])) # "null"}
  IN  IF HasWord(s, MediumWords) THEN "Medium"
      ELSE IF HasWord(s, HighWords) THEN "High"
      ELSE IF HasWord(s, LowWords) THEN "Low"
      ELSE IF HasWord(s, NoneWords) THEN "None"
      ELSE IF hits = {} THEN "null"
      ELSE LevelName(SearchLevel(s,
             ConfidencePatterns[CHOOSE n \in hits : \A h \in hits : n <= h]))

\* "null" stands for Python's None where a level name is expected
extract_confidence_level(content) ==
  LET s == Lower(content)
      hits == {n \in 1..Len(ConfidencePatterns) :
                 LevelName(SearchLevel(s, ConfidencePatterns[n])) # "null"}
  IN  IF HasWord(s, HighWords) THEN "High"
      ELSE IF HasWord(s, MediumWords) THEN "Medium"
      ELSE IF HasWord(s, LowWords) THEN "Low"
      ELSE IF HasWord(s, NoneWords) THEN "None"
      ELSE IF hits = {} THEN "null"
      ELSE LevelName(SearchLevel(s,
             ConfidencePatterns[CHOOSE n \in hits : \A h \in hits : n <= h]))


(* ------------------------------- inputs -------------------------------- *)

\* the longest wallet list a run is given
MaxWallets == 3

\* the largest concurrency cap a searcher is constructed with
MaxConcurrent == 2

\* the most wallets search_wallet is called for directly, side by side
MaxPipelines == 2

\* the most exceptions the per-result callback raises in one run
MaxCallbackFaults == 2

\* the longest window a limiter under test is given, in seconds
MaxWindow == 2

\* the largest per-window cap a limiter under test is given
MaxCap == 2

\* the seconds the clock of a limiter under test runs for
MaxTime == 2

\* search_wallet's max_retries, which the batch path never overrides
max_retries == 3

\* the most exceptions the service raises in one run: what it takes for one
\* agent to run out of attempts
MaxFaults == max_retries

AllWallets ==
  <<"WALLET_A", "WALLET_B", "WALLET_C", "WALLET_D", "WALLET_E", "WALLET_F">>

T_true == <<"t","r","u","e">>
T_false == <<"f","a","l","s","e">>
T_unsure == <<"U","n","k","n","o","w","n">>
T_holder == <<"U","s","e","r","n","a","m","e",":"," ","@","h","o","l","d","e","r","9","9","\n","c","o","n","f","i","d","e","n","c","e",":"," ","h","i","g","h">>
T_bob == <<"U","s","e","r","n","a","m","e",":"," ","@","b","o","b","_","1">>
T_weak == <<"w","e","a","k"," ","s","i","g","n","a","l">>

\* what the service answers to the existence query
ExistenceTexts == {T_true, T_false, T_unsure}

\* what the service answers to the ownership query
OwnershipTexts == {T_holder, T_bob, T_weak, T_unsure}

\* the service of the pipeline runs: every answer above
FullService == [existence |-> ExistenceTexts, ownership |-> OwnershipTexts]

\* the service of the batch runs, whose driver never reads a verdict: one
\* answer for each way a pipeline can go
TerseService ==
  [existence |-> {T_true, T_false}, ownership |-> {T_holder, T_unsure}]

\* the service of the limiter runs, which never read an answer: one with
\* posts and one without
AnsweringService == [existence |-> {T_true, T_false}, ownership |-> {T_holder}]

\* what a call to the service raises: a gRPC status code (when the transport
\* exposes one) and the text of str(e)
Exceptions ==
  { [code |-> "RESOURCE_EXHAUSTED", text |-> <<"q","u","o","t","a">>],
    [code |-> "", text |-> <<"H","T","T","P"," ","4","2","9">>],
    [code |-> "", text |-> <<"R","a","t","e"," ","l","i","m","i","t"," ","h","i","t">>],
    [code |-> "", text |-> <<"T","o","o"," ","M","a","n","y"," ","R","e","q","u","e","s","t","s">>],
    [code |-> "", text |-> <<"g","r","p","c"," ","R","E","S","O","U","R","C","E","_","E","X","H","A","U","S","T","E","D">>],
    [code |-> "UNAVAILABLE", text |-> <<"t","i","m","e","o","u","t">>] }

\* what the per-result callback raises
CallbackError == <<"p","u","s","h"," ","f","a","i","l","e","d">>

(* ----------------------------- Rate Limiter ---------------------------- *)

GRPC_AVAILABLE == TRUE

RateLimitIndicators ==
  { <<"r","a","t","e"," ","l","i","m","i","t">>, <<"4","2","9">>, <<"t","o","o"," ","m","a","n","y"," ","r","e","q","u","e","s","t","s">>, <<"r","e","s","o","u","r","c","e","_","e","x","h","a","u","s","t","e","d">> }

\* a classification by the status code alone
_is_rate_limit_error_status(e) ==
  GRPC_AVAILABLE /\ e.code = "RESOURCE_EXHAUSTED"

_is_rate_limit_error(e) ==
  \/ GRPC_AVAILABLE /\ e.code = "RESOURCE_EXHAUSTED"
  \/ \E ind \in RateLimitIndicators : Contains(Lower(e.text), ind)

\* the exceptions the except branches classify as quota rejections
QuotaExceptions == {e \in Exceptions : _is_rate_limit_error(e)}

OtherExceptions == Exceptions \ QuotaExceptions

Pow2(n) == IF n <= 0 THEN 1 ELSE 2 ^ n

\* a delay without the escalation by the consecutive rejections
BackoffDelay_unscaled(att, consecutive) == Min(60 * Pow2(att - 1), 300)

\* the delay handle_rate_limit_error sleeps for, the counter already raised
BackoffDelay(att, consecutive) ==
  LET backoff_delay == Min(60 * Pow2(att - 1), 300)
  IN  IF consecutive > 1
      THEN backoff_delay * Min(consecutive, 3)
      ELSE backoff_delay

(* ------------------------------- verdicts ------------------------------ *)

SearchResult(wallet, exists, handle, confidence, raw, error) ==
  [wallet |-> wallet, post_exists |-> exists, twitter_handle |-> handle,
   confidence |-> confidence, raw_response |-> raw, error |-> error]

\* a value not yet assigned
Unset == [unset |-> TRUE]

\* the variables of search_wallet's first assignment are functions of the
\* tasks that have reached it; f with f[w] set to x
Bind(f, w, x) ==
  [v \in DOMAIN f \cup {w} |-> IF v = w THEN x ELSE f[v]]

\* dict.get(key, default)
Get(d, key, default) == IF key \in DOMAIN d THEN d[key] ELSE default

\* "true" in content and "false" not in content
ParseExistence(content) ==
  Contains(content, T_true) /\ ~Contains(content, T_false)

MaxRetriesText == <<"M","a","x"," ","r","e","t","r","i","e","s"," ","e","x","c","e","e","d","e","d">>

ErrorPrefix == <<"E","r","r","o","r",":"," ">>

\* the existence agent's return value once its last attempt failed
ExistenceFailure(e) == <<FALSE, ErrorPrefix \o e.text>>

\* a loop that runs out without a word of why
ExistenceGaveUp_silent == <<FALSE, NoText>>

\* the existence agent's return value when the loop ran out
ExistenceGaveUp == <<FALSE, MaxRetriesText>>

\* the ownership agent's return value for a response
OwnershipFromContent(content) ==
  LET username == extract_username(content)
      confidence_level == extract_confidence_level(content)
  IN  IF username # NoText
      THEN [username |-> username,
            confidence |-> IF confidence_level # "null"
                           THEN confidence_level ELSE "Medium",
            raw_response |-> content]
      ELSE [username |-> NoText,
            confidence |-> IF confidence_level # "null"
                           THEN confidence_level ELSE "Medium",
            raw_response |-> content,
            error |-> <<"C","o","u","l","d"," ","n","o","t"," ","p","a","r","s","e"," ","u","s","e","r","n","a","m","e">>]

\* the ownership agent's return value once its last attempt failed
OwnershipFailure(e) ==
  [username |-> NoText, confidence |-> "null", raw_response |-> << >>,
   error |-> e.text]

\* the ownership agent's return value when the loop ran out
OwnershipGaveUp ==
  [username |-> NoText, confidence |-> "null", raw_response |-> << >>,
   error |-> MaxRetriesText]

\* a not-found verdict on the scale of the found ones
NotFoundVerdict_low(wallet, agent1) ==
  SearchResult(wallet, FALSE, NoText, "Low", agent1, NoText)

\* search_wallet when the existence agent reported no post
NotFoundVerdict(wallet, agent1) ==
  SearchResult(wallet, FALSE, NoText, "None", agent1, NoText)

\* a verdict that keeps the bare username as the handle
OwnershipVerdict_bare(wallet, o) ==
  IF Get(o, "username", NoText) # NoText
  THEN SearchResult(wallet, TRUE, o.username, o.confidence,
                    Get(o, "raw_response", << >>), NoText)
  ELSE SearchResult(wallet, TRUE, NoText, Get(o, "confidence", "Low"),
                    Get(o, "raw_response", << >>),
                    Get(o, "error", << >>))

\* a pipeline that goes on to the ownership agent whatever the report
NoPost_ignored(exists) == FALSE

\* search_wallet's test of the existence agent's report: not post_exists
NoPost(exists) == ~exists

\* search_wallet after the ownership agent returned
OwnershipVerdict(wallet, o) ==
  IF Get(o, "username", NoText) # NoText
  THEN SearchResult(wallet, TRUE, <<"@">> \o o.username, o.confidence,
                    Get(o, "raw_response", << >>), NoText)
  ELSE SearchResult(wallet, TRUE, NoText, Get(o, "confidence", "Low"),
                    Get(o, "raw_response", << >>),
                    Get(o, "error", <<"C","o","u","l","d"," ","n","o","t"," ","d","e","t","e","r","m","i","n","e"," ","o","w","n","e","r","s","h","i","p">>))

\* what agent_check_post_exists returns for each answer of the service
ExistenceOutcome ==
  [text \in ExistenceTexts |->
     LET content == Lower(Strip(text))
     IN  <<ParseExistence(content), content>>]

\* what agent_analyze_ownership returns for each answer of the service
OwnershipOutcome ==
  [content \in OwnershipTexts |-> OwnershipFromContent(content)]

\* the batch driver's verdict for a task that ended with an exception
ErrorVerdict(wallet, text) ==
  SearchResult(wallet, FALSE, NoText, "None", << >>, text)


(* -------------------------------- state -------------------------------- *)

VARIABLES
  wallets,                  \* the list search_wallets is called with
  service,                  \* the answers the service draws from
  max_concurrent,           \* self.max_concurrent
  rate_limit_window,        \* self.rate_limit_window
  max_requests_per_window,  \* self.max_requests_per_window
  now,                      \* time.time(), in seconds
  semaphore,                \* the value of self.semaphore
  request_times,            \* self.request_times, oldest first
  consecutive_rate_limits,  \* self.consecutive_rate_limits
  running,                  \* the task the event loop is executing, 0 if none
  dpc,                      \* where search_wallets stands
  batch_start,              \* the loop variable of search_wallets
  idx,                      \* the index i of the loop over batch_results
  results,                  \* the list search_wallets builds
  progress,                 \* the arguments on_progress was called with
  pc,                       \* where each task stands
  attempt,                  \* the loop variable of the agent a task is in
  delay,                    \* the seconds a sleeping task sleeps for
  post_exists,              \* search_wallet's post_exists
  agent1_response,          \* search_wallet's agent1_response
  ownership_result,         \* search_wallet's ownership_result
  result,                   \* the SearchResult of search_wallet
  batch_results,            \* what gather holds for each task
  delivered,                \* the verdicts on_result was called with, per wallet
  own_calls,                \* the calls of agent_analyze_ownership, per wallet
  calls,                    \* the service calls a task has outstanding
  sent,                     \* the requests sent to the service so far
  exhausted,                \* the agents that ran out of attempts, per wallet
  faults,                   \* the agent calls the service has failed in
  cb_faults,                \* the wallets on_result has raised for
  response_content,         \* the text an extractor is called with
  extracted,                \* what each extractor returned for it
  runs,                     \* the runs of main() started so far
  mpc,                      \* where main() stands
  all_wallets,              \* main's all_wallets
  resume_from_checkpoint,   \* the input's resumeFromCheckpoint
  batch_limit,              \* the input's batchLimit
  key_value_store,          \* the value stored under CHECKPOINT_KEY
  checkpoint,               \* main's checkpoint, as load_checkpoint returned it
  processed_wallets,        \* main's processed_wallets
  wallets_to_process,       \* main's wallets_to_process
  checkpoint_counter,       \* main's checkpoint_counter
  dataset,                  \* the wallets of the records pushed so far
  on_result_pc,             \* where on_result stands, per wallet to process
  push_faults               \* the calls of push_data that have raised

loopVars == <<semaphore, request_times, consecutive_rate_limits, running>>
driverVars == <<dpc, batch_start, idx, results, progress>>
frameVars == <<attempt, delay, post_exists, agent1_response, ownership_result,
               result>>
taskVars == <<pc, batch_results, delivered, own_calls, calls, exhausted>>
configVars == <<wallets, service, max_concurrent, rate_limit_window,
                max_requests_per_window>>
historyVars == <<sent>>
envVars == <<faults, cb_faults>>
searcherVars == <<configVars, envVars, now, historyVars, loopVars, driverVars,
                  frameVars, taskVars>>
extractVars == <<response_content, extracted>>
actorVars == <<runs, mpc, all_wallets, resume_from_checkpoint, batch_limit,
               key_value_store, checkpoint, processed_wallets,
               wallets_to_process, checkpoint_counter, dataset, on_result_pc,
               push_faults>>
vars == <<searcherVars, extractVars, actorVars>>

Tasks == 1..Len(wallets)

batch_size == max_concurrent * 2

\* a slice without its upper end: wallets[batch_start:]
Batch_open(start) == {w \in Tasks : start < w}

\* the indices of wallets[batch_start:batch_start + batch_size]
Batch(start) == {w \in Tasks : start < w /\ w <= start + batch_size}

Finished(w) == pc[w] = "done"

\* a searcher just constructed, for a list of at most n wallets
Constructed(n) ==
  /\ wallets \in {SubSeq(AllWallets, 1, k) : k \in 0..n}
  /\ max_concurrent \in 1..MaxConcurrent
  /\ semaphore = max_concurrent
  /\ request_times = << >>
  /\ now = 0
  /\ sent = 0
  /\ consecutive_rate_limits = 0
  /\ running = 0
  /\ batch_start = 0
  /\ idx = 0
  /\ results = << >>
  /\ progress = << >>
  /\ pc = [w \in Tasks |-> "none"]
  /\ attempt = [w \in Tasks |-> 0]
  /\ delay = [w \in Tasks |-> 0]
  /\ post_exists = << >>
  /\ agent1_response = << >>
  /\ ownership_result = [w \in Tasks |-> Unset]
  /\ result = [w \in Tasks |-> Unset]
  /\ batch_results = [w \in Tasks |-> Unset]
  /\ delivered = [w \in Tasks |-> << >>]
  /\ own_calls = [w \in Tasks |-> 0]
  /\ calls = [w \in Tasks |-> 0]
  /\ exhausted = [w \in Tasks |-> {}]
  /\ faults = 0
  /\ cb_faults = 0

\* no extractor is called on its own
NoExtraction ==
  /\ response_content = << >>
  /\ extracted = << >>

\* Python's None
None == [none |-> TRUE]

\* main() is not run
NoActor ==
  /\ runs = 0
  /\ mpc = "idle"
  /\ all_wallets = << >>
  /\ resume_from_checkpoint = TRUE
  /\ batch_limit = 0
  /\ key_value_store = None
  /\ checkpoint = None
  /\ processed_wallets = {}
  /\ wallets_to_process = << >>
  /\ checkpoint_counter = 0
  /\ dataset = {}
  /\ on_result_pc = << >>
  /\ push_faults = 0

\* search_wallets is called with on_result and on_progress
Init ==
  /\ Constructed(MaxWallets)
  /\ NoExtraction
  /\ NoActor
  /\ rate_limit_window = 60
  /\ max_requests_per_window = 50
  /\ service = TerseService
  /\ dpc = "called"

\* search_wallet is called for each wallet by a task of its own
InitPipeline ==
  /\ Constructed(MaxPipelines)
  /\ NoExtraction
  /\ NoActor
  /\ rate_limit_window = 60
  /\ max_requests_per_window = 50
  /\ service = FullService
  /\ dpc = "direct"

(* ------------------------------ the task ------------------------------- *)

\* a semaphore that lets every caller through
SemaphoreFree_open == TRUE

\* the semaphore lets a caller through
SemaphoreFree == semaphore > 0

\* a task can be given the loop: the loop is idle, and the tasks gather
\* created are all ahead of it in the ready queue
CanResume == running = 0 /\ \A v \in Tasks : pc[v] # "new"

\* search_wallet_with_semaphore starts: async with self.semaphore
TaskStart(w) ==
  /\ pc[w] = "new"
  /\ running = 0
  /\ \A v \in Tasks : v < w => pc[v] # "new"
  /\ IF SemaphoreFree
     THEN /\ semaphore' = semaphore - 1
          /\ pc' = [pc EXCEPT ![w] = "a1_limiter"]
          /\ running' = w
     ELSE /\ pc' = [pc EXCEPT ![w] = "sem_wait"]
          /\ UNCHANGED <<semaphore, running>>
  /\ UNCHANGED <<envVars, configVars, extractVars, actorVars, now, historyVars, request_times, consecutive_rate_limits,
                 driverVars, frameVars, batch_results, delivered, own_calls,
                 calls, exhausted>>

\* a waiter of the semaphore is woken and enters the block
SemaphoreAcquire(w) ==
  /\ pc[w] = "sem_wait"
  /\ CanResume
  /\ SemaphoreFree
  /\ semaphore' = semaphore - 1
  /\ pc' = [pc EXCEPT ![w] = "a1_limiter"]
  /\ running' = w
  /\ UNCHANGED <<envVars, configVars, extractVars, actorVars, now, historyVars, request_times, consecutive_rate_limits,
                 driverVars, frameVars, batch_results, delivered, own_calls,
                 calls, exhausted>>

\* the deque after the while loop has dropped the timestamps older than the
\* window
RECURSIVE Prune(_, _)
Prune(times, t) ==
  IF times # << >> /\ times[1] < t - rate_limit_window
  THEN Prune(Tail(times), t)
  ELSE times

\* a limiter that works out no time to wait
WaitTime_none(times, t) == 0

\* wait_time = self.rate_limit_window - (now - self.request_times[0])
WaitTime(times, t) == rate_limit_window - (t - times[1])

WindowSleep == {"a1_window", "a2_window"}

\* wait_for_rate_limit_window, called once on entry to either agent: up to its
\* sleep when the window is full, or to the end
RateWindow(w) ==
  /\ pc[w] \in {"a1_limiter", "a2_limiter"}
  /\ running = w
  /\ LET times == Prune(request_times, now)
     IN  IF /\ Len(times) >= max_requests_per_window
            /\ WaitTime(times, now) > 0
         THEN /\ request_times' = times
              /\ delay' = [delay EXCEPT ![w] = WaitTime(times, now)]
              /\ pc' = [pc EXCEPT ![w] = IF pc[w] = "a1_limiter"
                                         THEN "a1_window" ELSE "a2_window"]
              /\ running' = 0
              /\ UNCHANGED attempt
         ELSE /\ request_times' = Append(times, now)
              /\ pc' = [pc EXCEPT ![w] = IF pc[w] = "a1_limiter"
                                         THEN "a1_send" ELSE "a2_send"]
              /\ attempt' = [attempt EXCEPT ![w] = 0]
              /\ UNCHANGED <<delay, running>>
  /\ UNCHANGED <<envVars, configVars, extractVars, actorVars, now, historyVars, semaphore,
                 consecutive_rate_limits, driverVars, post_exists,
                 agent1_response, ownership_result, result, batch_results,
                 delivered, own_calls, calls, exhausted>>

\* the sleep of wait_for_rate_limit_window is over: the request is recorded
WindowWake(w) ==
  /\ pc[w] \in WindowSleep
  /\ delay[w] = 0
  /\ CanResume
  /\ request_times' = Append(request_times, now)
  /\ pc' = [pc EXCEPT ![w] = IF pc[w] = "a1_window" THEN "a1_send" ELSE "a2_send"]
  /\ attempt' = [attempt EXCEPT ![w] = 0]
  /\ running' = w
  /\ UNCHANGED <<envVars, configVars, extractVars, actorVars, now, historyVars, semaphore,
                 consecutive_rate_limits, driverVars, delay, post_exists,
                 agent1_response, ownership_result, result, batch_results,
                 delivered, own_calls, calls, exhausted>>

\* a second passes; the clock stops once it has reached MaxTime and no sleep
\* of the limiter is still to end
Tick ==
  /\ now < MaxTime \/ \E w \in Tasks : pc[w] \in WindowSleep /\ delay[w] > 0
  /\ now' = now + 1
  /\ delay' = [w \in Tasks |-> IF pc[w] \in WindowSleep /\ delay[w] > 0
                                THEN delay[w] - 1 ELSE delay[w]]
  /\ UNCHANGED <<envVars, configVars, extractVars, actorVars, historyVars, semaphore, request_times,
                 consecutive_rate_limits, running, driverVars, attempt,
                 post_exists, agent1_response, ownership_result, result,
                 taskVars>>


\* chat.sample() is entered: the request is out
Send(w) ==
  /\ pc[w] \in {"a1_send", "a2_send"}
  /\ running = w
  /\ calls' = [calls EXCEPT ![w] = @ + 1]
  /\ sent' = sent + 1
  /\ pc' = [pc EXCEPT ![w] = IF pc[w] = "a1_send" THEN "a1_call" ELSE "a2_call"]
  /\ UNCHANGED <<envVars, configVars, extractVars, actorVars, now, loopVars, driverVars, frameVars, batch_results,
                 delivered, own_calls, exhausted>>

\* the service may raise once more
CanFail == faults < MaxFaults

\* agent_check_post_exists: the service answers
ExistenceReply(w) ==
  /\ pc[w] = "a1_call"
  /\ running = w
  /\ \E text \in service.existence :
       /\ post_exists' = Bind(post_exists, w, ExistenceOutcome[text][1])
       /\ agent1_response' = Bind(agent1_response, w, ExistenceOutcome[text][2])
  /\ consecutive_rate_limits' = 0
  /\ calls' = [calls EXCEPT ![w] = @ - 1]
  /\ attempt' = [attempt EXCEPT ![w] = 0]
  /\ pc' = [pc EXCEPT ![w] = "a1_done"]
  /\ UNCHANGED <<envVars, configVars, extractVars, actorVars, now, historyVars, semaphore, request_times, running, driverVars,
                 delay, ownership_result, result, batch_results, delivered,
                 own_calls, exhausted>>

\* the except branch of either agent, for a quota rejection:
\* handle_rate_limit_error, then continue
RateLimited(w) ==
  /\ pc[w] \in {"a1_call", "a2_call"}
  /\ running = w
  /\ QuotaExceptions # {}
  /\ consecutive_rate_limits' = consecutive_rate_limits + 1
  /\ delay' = [delay EXCEPT
                 ![w] = BackoffDelay(attempt[w] + 1, consecutive_rate_limits')]
  /\ calls' = [calls EXCEPT ![w] = @ - 1]
  /\ pc' = [pc EXCEPT ![w] = IF pc[w] = "a1_call" THEN "a1_sleep" ELSE "a2_sleep"]
  /\ running' = 0
  /\ CanFail
  /\ faults' = faults + 1
  /\ UNCHANGED <<cb_faults, configVars, extractVars, actorVars, now, historyVars, semaphore, request_times, driverVars, attempt,
                 post_exists, agent1_response, ownership_result, result,
                 batch_results, delivered, own_calls, exhausted>>

\* the except branch of either agent, for another exception before the last
\* attempt: sleep (attempt + 1) * 2 seconds
OtherFailure(w) ==
  /\ pc[w] \in {"a1_call", "a2_call"}
  /\ running = w
  /\ OtherExceptions # {}
  /\ attempt[w] < max_retries - 1
  /\ delay' = [delay EXCEPT ![w] = (attempt[w] + 1) * 2]
  /\ calls' = [calls EXCEPT ![w] = @ - 1]
  /\ pc' = [pc EXCEPT ![w] = IF pc[w] = "a1_call" THEN "a1_sleep" ELSE "a2_sleep"]
  /\ running' = 0
  /\ CanFail
  /\ faults' = faults + 1
  /\ UNCHANGED <<cb_faults, configVars, extractVars, actorVars, now, historyVars, semaphore, request_times,
                 consecutive_rate_limits, driverVars, attempt, post_exists,
                 agent1_response, ownership_result, result, batch_results,
                 delivered, own_calls, exhausted>>

\* agent_check_post_exists: another exception on the last attempt
ExistenceLastFailure(w) ==
  /\ pc[w] = "a1_call"
  /\ running = w
  /\ attempt[w] >= max_retries - 1
  /\ \E e \in OtherExceptions :
       /\ post_exists' = Bind(post_exists, w, ExistenceFailure(e)[1])
       /\ agent1_response' = Bind(agent1_response, w, ExistenceFailure(e)[2])
  /\ exhausted' = [exhausted EXCEPT ![w] = @ \cup {"existence"}]
  /\ calls' = [calls EXCEPT ![w] = @ - 1]
  /\ attempt' = [attempt EXCEPT ![w] = 0]
  /\ pc' = [pc EXCEPT ![w] = "a1_done"]
  /\ CanFail
  /\ faults' = faults + 1
  /\ UNCHANGED <<cb_faults, configVars, extractVars, actorVars, now, historyVars, loopVars, driverVars, delay, ownership_result,
                 result, batch_results, delivered, own_calls>>

\* the sleep of either agent ends: the loop goes on with the next attempt, or
\* runs out
Wake(w) ==
  /\ pc[w] \in {"a1_sleep", "a2_sleep"}
  /\ CanResume
  /\ running' = w
  /\ delay' = [delay EXCEPT ![w] = 0]
  /\ IF attempt[w] + 1 < max_retries
     THEN /\ attempt' = [attempt EXCEPT ![w] = @ + 1]
          /\ pc' = [pc EXCEPT ![w] = IF pc[w] = "a1_sleep" THEN "a1_send" ELSE "a2_send"]
          /\ UNCHANGED <<post_exists, agent1_response, ownership_result,
                         exhausted>>
     ELSE /\ attempt' = [attempt EXCEPT ![w] = 0]
          /\ IF pc[w] = "a1_sleep"
             THEN /\ post_exists' = Bind(post_exists, w, ExistenceGaveUp[1])
                  /\ agent1_response' = Bind(agent1_response, w, ExistenceGaveUp[2])
                  /\ exhausted' = [exhausted EXCEPT ![w] = @ \cup {"existence"}]
                  /\ pc' = [pc EXCEPT ![w] = "a1_done"]
                  /\ UNCHANGED ownership_result
             ELSE /\ ownership_result' = [ownership_result EXCEPT ![w] = OwnershipGaveUp]
                  /\ exhausted' = [exhausted EXCEPT ![w] = @ \cup {"ownership"}]
                  /\ pc' = [pc EXCEPT ![w] = "a2_done"]
                  /\ UNCHANGED <<post_exists, agent1_response>>
  /\ UNCHANGED <<envVars, configVars, extractVars, actorVars, now, historyVars, semaphore, request_times,
                 consecutive_rate_limits, driverVars, result, batch_results,
                 delivered, own_calls, calls>>

\* search_wallet after agent_check_post_exists returned: the verdict of a
\* wallet without posts, or on to agent_analyze_ownership
AfterExistence(w) ==
  /\ pc[w] = "a1_done"
  /\ running = w
  /\ IF NoPost(post_exists[w])
     THEN /\ result' = [result EXCEPT
                          ![w] = NotFoundVerdict(wallets[w], agent1_response[w])]
          /\ pc' = [pc EXCEPT ![w] = "callback"]
          /\ UNCHANGED own_calls
     ELSE /\ own_calls' = [own_calls EXCEPT ![w] = @ + 1]
          /\ pc' = [pc EXCEPT ![w] = "a2_limiter"]
          /\ UNCHANGED result
  /\ UNCHANGED <<envVars, configVars, extractVars, actorVars, now, historyVars, loopVars, driverVars, attempt, delay,
                 post_exists, agent1_response, ownership_result,
                 batch_results, delivered, calls, exhausted>>

\* an ownership agent that leaves the counter alone on success
OwnershipReply_keeps(w) ==
  /\ pc[w] = "a2_call"
  /\ running = w
  /\ \E content \in service.ownership :
       ownership_result' = [ownership_result EXCEPT
                              ![w] = OwnershipOutcome[content]]
  /\ calls' = [calls EXCEPT ![w] = @ - 1]
  /\ attempt' = [attempt EXCEPT ![w] = 0]
  /\ pc' = [pc EXCEPT ![w] = "a2_done"]
  /\ UNCHANGED <<envVars, configVars, extractVars, actorVars, now, historyVars, loopVars, driverVars,
                 delay, post_exists, agent1_response, result, batch_results,
                 delivered, own_calls, exhausted>>

\* an ownership agent that asks again when it cannot read a handle
OwnershipReply_retries(w) ==
  /\ pc[w] = "a2_call"
  /\ running = w
  /\ \E content \in service.ownership :
       IF OwnershipOutcome[content].username = NoText
          /\ attempt[w] < max_retries - 1
       THEN /\ attempt' = [attempt EXCEPT ![w] = @ + 1]
            /\ pc' = [pc EXCEPT ![w] = "a2_send"]
            /\ UNCHANGED ownership_result
       ELSE /\ ownership_result' = [ownership_result EXCEPT
                                      ![w] = OwnershipOutcome[content]]
            /\ attempt' = [attempt EXCEPT ![w] = 0]
            /\ pc' = [pc EXCEPT ![w] = "a2_done"]
  /\ consecutive_rate_limits' = 0
  /\ calls' = [calls EXCEPT ![w] = @ - 1]
  /\ UNCHANGED <<envVars, configVars, extractVars, actorVars, now, historyVars, semaphore, request_times, running, driverVars,
                 delay, post_exists, agent1_response, result, batch_results,
                 delivered, own_calls, exhausted>>

\* agent_analyze_ownership: the service answers
OwnershipReply(w) ==
  /\ pc[w] = "a2_call"
  /\ running = w
  /\ \E content \in service.ownership :
       ownership_result' = [ownership_result EXCEPT
                              ![w] = OwnershipOutcome[content]]
  /\ consecutive_rate_limits' = 0
  /\ calls' = [calls EXCEPT ![w] = @ - 1]
  /\ attempt' = [attempt EXCEPT ![w] = 0]
  /\ pc' = [pc EXCEPT ![w] = "a2_done"]
  /\ UNCHANGED <<envVars, configVars, extractVars, actorVars, now, historyVars, semaphore, request_times, running, driverVars,
                 delay, post_exists, agent1_response, result, batch_results,
                 delivered, own_calls, exhausted>>

\* agent_analyze_ownership: another exception on the last attempt
OwnershipLastFailure(w) ==
  /\ pc[w] = "a2_call"
  /\ running = w
  /\ attempt[w] >= max_retries - 1
  /\ \E e \in OtherExceptions :
       /\ ownership_result' = [ownership_result EXCEPT ![w] = OwnershipFailure(e)]
  /\ exhausted' = [exhausted EXCEPT ![w] = @ \cup {"ownership"}]
  /\ calls' = [calls EXCEPT ![w] = @ - 1]
  /\ attempt' = [attempt EXCEPT ![w] = 0]
  /\ pc' = [pc EXCEPT ![w] = "a2_done"]
  /\ CanFail
  /\ faults' = faults + 1
  /\ UNCHANGED <<cb_faults, configVars, extractVars, actorVars, now, historyVars, loopVars, driverVars, delay, post_exists,
                 agent1_response, result, batch_results, delivered, own_calls>>

\* search_wallet after agent_analyze_ownership returned
AfterOwnership(w) ==
  /\ pc[w] = "a2_done"
  /\ running = w
  /\ result' = [result EXCEPT
                  ![w] = OwnershipVerdict(wallets[w], ownership_result[w])]
  /\ pc' = [pc EXCEPT ![w] = "callback"]
  /\ UNCHANGED <<envVars, configVars, extractVars, actorVars, now, historyVars, loopVars, driverVars, attempt, delay,
                 post_exists, agent1_response, ownership_result,
                 batch_results, delivered, own_calls, calls, exhausted>>

\* search_wallet is called directly: the task awaiting it is first run
SearchWalletCalled(w) ==
  /\ dpc = "direct"
  /\ pc[w] = "none"
  /\ running = 0
  /\ pc' = [pc EXCEPT ![w] = "a1_limiter"]
  /\ running' = w
  /\ UNCHANGED <<envVars, configVars, extractVars, actorVars, now, historyVars, semaphore, request_times,
                 consecutive_rate_limits, driverVars, frameVars,
                 batch_results, delivered, own_calls, calls, exhausted>>

\* search_wallet, called directly, returns its SearchResult
SearchWalletReturns(w) ==
  /\ dpc = "direct"
  /\ pc[w] = "callback"
  /\ running = w
  /\ batch_results' = [batch_results EXCEPT ![w] = result[w]]
  /\ pc' = [pc EXCEPT ![w] = "done"]
  /\ running' = 0
  /\ UNCHANGED <<envVars, configVars, extractVars, actorVars, now, historyVars, semaphore, request_times,
                 consecutive_rate_limits, driverVars, frameVars, delivered,
                 own_calls, calls, exhausted>>

\* the task leaves the async with block, returning value or raising it
TaskEnds(w, value) ==
  /\ semaphore' = semaphore + 1
  /\ batch_results' = [batch_results EXCEPT ![w] = value]
  /\ pc' = [pc EXCEPT ![w] = "done"]
  /\ running' = 0

\* what a task that raised leaves in gather's result list
Raised(text) == [exception |-> text]

\* search_wallet_with_semaphore calls on_result(result); the callback returns
\* (or its coroutine completes without suspending) and the task returns
CallbackReturns(w) ==
  /\ dpc = "gather"
  /\ pc[w] = "callback"
  /\ running = w
  /\ delivered' = [delivered EXCEPT ![w] = Append(@, result[w])]
  /\ TaskEnds(w, result[w])
  /\ UNCHANGED <<envVars, configVars, extractVars, actorVars, now, historyVars, request_times, consecutive_rate_limits,
                 driverVars, frameVars, own_calls, calls, exhausted>>

\* ... the callback raises, and the exception leaves the task
CallbackRaises(w) ==
  /\ dpc = "gather"
  /\ pc[w] = "callback"
  /\ running = w
  /\ delivered' = [delivered EXCEPT ![w] = Append(@, result[w])]
  /\ TaskEnds(w, Raised(CallbackError))
  /\ cb_faults < MaxCallbackFaults
  /\ cb_faults' = cb_faults + 1
  /\ UNCHANGED <<faults, configVars, extractVars, actorVars, now, historyVars, request_times, consecutive_rate_limits,
                 driverVars, frameVars, own_calls, calls, exhausted>>

\* ... the callback's coroutine is created and never awaited: its body does
\* not run, and the task returns
CallbackSuspends_unawaited(w) ==
  /\ dpc = "gather"
  /\ pc[w] = "callback"
  /\ running = w
  /\ TaskEnds(w, result[w])
  /\ UNCHANGED <<envVars, configVars, extractVars, actorVars, now, historyVars, request_times,
                 consecutive_rate_limits, driverVars, frameVars, delivered,
                 own_calls, calls, exhausted>>

\* ... the callback is a coroutine that suspends: await callback_result
CallbackSuspends(w) ==
  /\ dpc = "gather"
  /\ pc[w] = "callback"
  /\ running = w
  /\ delivered' = [delivered EXCEPT ![w] = Append(@, result[w])]
  /\ pc' = [pc EXCEPT ![w] = "cb_await"]
  /\ running' = 0
  /\ UNCHANGED <<envVars, configVars, extractVars, actorVars, now, historyVars, semaphore, request_times,
                 consecutive_rate_limits, driverVars, frameVars,
                 batch_results, own_calls, calls, exhausted>>

\* the awaited callback completes and the task returns
AwaitReturns(w) ==
  /\ pc[w] = "cb_await"
  /\ CanResume
  /\ TaskEnds(w, result[w])
  /\ UNCHANGED <<envVars, configVars, extractVars, actorVars, now, historyVars, request_times, consecutive_rate_limits,
                 driverVars, frameVars, delivered, own_calls, calls, exhausted>>

\* the awaited callback raises
AwaitRaises(w) ==
  /\ pc[w] = "cb_await"
  /\ CanResume
  /\ TaskEnds(w, Raised(CallbackError))
  /\ cb_faults < MaxCallbackFaults
  /\ cb_faults' = cb_faults + 1
  /\ UNCHANGED <<faults, configVars, extractVars, actorVars, now, historyVars, request_times, consecutive_rate_limits,
                 driverVars, frameVars, delivered, own_calls, calls, exhausted>>

(* --------------------------- the batch driver -------------------------- *)

\* the tasks list of one batch: a coroutine per wallet, handed to gather
CreateTasks(start) ==
  pc' = [w \in Tasks |-> IF w \in Batch(start) THEN "new" ELSE pc[w]]

\* search_wallets is called: the empty list returns at once
SearchWallets ==
  /\ dpc = "called"
  /\ IF wallets = << >>
     THEN /\ dpc' = "returned"
          /\ UNCHANGED pc
     ELSE /\ dpc' = "gather"
          /\ CreateTasks(0)
  /\ UNCHANGED <<envVars, configVars, extractVars, actorVars, now, historyVars, loopVars, batch_start, idx, results, progress,
                 frameVars, batch_results, delivered, own_calls, calls,
                 exhausted>>

\* asyncio.gather(*tasks, return_exceptions=True) returns
Gathered ==
  /\ dpc = "gather"
  /\ running = 0
  /\ \A w \in Batch(batch_start) : Finished(w)
  /\ dpc' = "collect"
  /\ idx' = 0
  /\ UNCHANGED <<envVars, configVars, extractVars, actorVars, now, historyVars, loopVars, batch_start, results, progress,
                 frameVars, taskVars>>

\* the task the loop over batch_results looks at
Current == batch_start + idx + 1

IsException(r) == "exception" \in DOMAIN r

\* the loop over batch_results, for a task that returned its verdict
CollectResult ==
  /\ dpc = "collect"
  /\ Current \in Batch(batch_start)
  /\ ~IsException(batch_results[Current])
  /\ results' = Append(results, batch_results[Current])
  /\ idx' = idx + 1
  /\ UNCHANGED <<envVars, configVars, extractVars, actorVars, now, historyVars, loopVars, dpc, batch_start, progress, frameVars,
                 taskVars>>

\* an error verdict that indexes the whole list by the position in the batch
error_result_unsliced ==
  ErrorVerdict(wallets[idx + 1], batch_results[Current].exception)

\* the error verdict for the task at hand
error_result == ErrorVerdict(wallets[Current], batch_results[Current].exception)

\* ... for a task that raised: the error verdict is appended and handed to
\* on_result, which returns
CollectError ==
  /\ dpc = "collect"
  /\ Current \in Batch(batch_start)
  /\ IsException(batch_results[Current])
  /\ results' = Append(results, error_result)
  /\ delivered' = [delivered EXCEPT ![Current] = Append(@, error_result)]
  /\ idx' = idx + 1
  /\ UNCHANGED <<envVars, configVars, extractVars, actorVars, now, historyVars, loopVars, dpc, batch_start, progress, frameVars,
                 pc, batch_results, own_calls, calls, exhausted>>

\* ... on_result raises, and the exception leaves search_wallets
CollectErrorRaises ==
  /\ dpc = "collect"
  /\ Current \in Batch(batch_start)
  /\ IsException(batch_results[Current])
  /\ results' = Append(results, error_result)
  /\ delivered' = [delivered EXCEPT ![Current] = Append(@, error_result)]
  /\ dpc' = "raised"
  /\ cb_faults < MaxCallbackFaults
  /\ cb_faults' = cb_faults + 1
  /\ UNCHANGED <<faults, configVars, extractVars, actorVars, now, historyVars, loopVars, batch_start, idx, progress, frameVars,
                 pc, batch_results, own_calls, calls, exhausted>>

\* on_progress(min(batch_start + batch_size, len(wallets)), len(wallets)),
\* then the sleep between batches or the return
Progress ==
  /\ dpc = "collect"
  /\ Current \notin Batch(batch_start)
  /\ progress' = Append(progress,
                   <<Min(batch_start + batch_size, Len(wallets)), Len(wallets)>>)
  /\ dpc' = IF batch_start + batch_size < Len(wallets)
            THEN "sleep" ELSE "returned"
  /\ UNCHANGED <<envVars, configVars, extractVars, actorVars, now, historyVars, loopVars, batch_start, idx, results, frameVars,
                 taskVars>>

\* asyncio.sleep(self.rate_limit_delay) ends: the next batch
NextBatch ==
  /\ dpc = "sleep"
  /\ batch_start' = batch_start + batch_size
  /\ CreateTasks(batch_start + batch_size)
  /\ dpc' = "gather"
  /\ UNCHANGED <<envVars, configVars, extractVars, actorVars, now, historyVars, loopVars, idx, results, progress, frameVars,
                 batch_results, delivered, own_calls, calls, exhausted>>

(* ---------------------------- specification ---------------------------- *)

Next ==
  \/ SearchWallets
  \/ Gathered
  \/ CollectResult
  \/ CollectError
  \/ CollectErrorRaises
  \/ Progress
  \/ NextBatch
  \/ \E w \in Tasks : TaskStart(w)
  \/ \E w \in Tasks : SemaphoreAcquire(w)
  \/ \E w \in Tasks : RateWindow(w)
  \/ \E w \in Tasks : Send(w)
  \/ \E w \in Tasks : ExistenceReply(w)
  \/ \E w \in Tasks : RateLimited(w)
  \/ \E w \in Tasks : OtherFailure(w)
  \/ \E w \in Tasks : ExistenceLastFailure(w)
  \/ \E w \in Tasks : Wake(w)
  \/ \E w \in Tasks : AfterExistence(w)
  \/ \E w \in Tasks : OwnershipReply(w)
  \/ \E w \in Tasks : OwnershipLastFailure(w)
  \/ \E w \in Tasks : AfterOwnership(w)
  \/ \E w \in Tasks : CallbackReturns(w)
  \/ \E w \in Tasks : CallbackRaises(w)
  \/ \E w \in Tasks : CallbackSuspends(w)
  \/ \E w \in Tasks : AwaitReturns(w)
  \/ \E w \in Tasks : AwaitRaises(w)

Spec == Init /\ [][Next]_vars

\* every call to the service and every callback returns or raises, every sleep
\* ends, and the event loop runs a task that is ready
FairSpec == Spec /\ WF_vars(Next)

\* the steps of search_wallet and its agents alone
NextPipeline ==
  \/ \E w \in Tasks : SearchWalletCalled(w)
  \/ \E w \in Tasks : RateWindow(w)
  \/ \E w \in Tasks : Send(w)
  \/ \E w \in Tasks : ExistenceReply(w)
  \/ \E w \in Tasks : RateLimited(w)
  \/ \E w \in Tasks : OtherFailure(w)
  \/ \E w \in Tasks : ExistenceLastFailure(w)
  \/ \E w \in Tasks : Wake(w)
  \/ \E w \in Tasks : AfterExistence(w)
  \/ \E w \in Tasks : OwnershipReply(w)
  \/ \E w \in Tasks : OwnershipLastFailure(w)
  \/ \E w \in Tasks : AfterOwnership(w)
  \/ \E w \in Tasks : SearchWalletReturns(w)

SpecPipeline == InitPipeline /\ [][NextPipeline]_vars

\* the pipelines of a service that always answers, on the clock, with a small
\* window and cap set on the searcher
InitLimiter ==
  /\ Constructed(MaxPipelines)
  /\ NoExtraction
  /\ NoActor
  /\ rate_limit_window \in 1..MaxWindow
  /\ max_requests_per_window \in 1..MaxCap
  /\ max_concurrent = MaxConcurrent
  /\ service = AnsweringService
  /\ dpc = "direct"

NextLimiter ==
  \/ Tick
  \/ \E w \in Tasks : SearchWalletCalled(w)
  \/ \E w \in Tasks : RateWindow(w)
  \/ \E w \in Tasks : WindowWake(w)
  \/ \E w \in Tasks : Send(w)
  \/ \E w \in Tasks : ExistenceReply(w)
  \/ \E w \in Tasks : AfterExistence(w)
  \/ \E w \in Tasks : OwnershipReply(w)
  \/ \E w \in Tasks : AfterOwnership(w)
  \/ \E w \in Tasks : SearchWalletReturns(w)

SpecLimiter == InitLimiter /\ [][NextLimiter]_vars

\* the event loop runs a task that is ready, and time passes
FairLimiter == SpecLimiter /\ WF_vars(NextLimiter)

(* ---------------------------- the extractors --------------------------- *)

\* what a response says about the handle
HandleParts ==
  { << >>,
    <<"U","s","e","r","n","a","m","e",":"," ","@","a","b","c","X","Y","Z","_","1"," ","p","o","s","t","e","d"," ","i","t">>,
    <<"n","o"," ","h","a","n","d","l","e"," ","m","e","n","t","i","o","n","e","d"," ","h","e","r","e">>,
    <<"t","w","i","t","t","e","r",":"," ","c","a","r","o","l"," ","o","r"," ","@","d","a","v","e">>,
    <<"h","a","n","d","l","e",":"," ","@","e","r","i","n">>,
    <<"T","w","i","t","t","e","r"," "," "," ","f","r","a","n","k","_","2","2">>,
    <<"f","o","u","n","d"," ","@">>,
    <<"t","h","e"," ","u","s","e","r"," ","n","a","m","e"," ","i","s"," ","@","a","_","v","e","r","y","_","l","o","n","g","_","h","a","n","d","l","e","_","n","a","m","e","_","x">> }

\* what a response says about the confidence
ConfidenceParts ==
  { << >>,
    <<"t","h","i","s"," ","i","s"," ","a"," ","h","i","g","h"," ","c","o","n","f","i","d","e","n","c","e",","," ","t","h","o","u","g","h"," ","s","o","m","e","w","h","a","t"," ","u","n","c","l","e","a","r",","," ","m","a","t","c","h">>,
    <<"c","o","n","f","i","d","e","n","c","e",":"," ","h","i","g","h","l","y">>,
    <<"l","e","v","e","l",":"," ","l","o","w","e","s","t">>,
    <<"c","o","n","f","i","d","e","n","c","e",":"," ","m","o","d","e","r","a","t","e","l","y">>,
    <<"p","r","o","b","a","b","l","y">>,
    <<"w","e","a","k"," ","o","r"," ","p","a","r","t","i","a","l">>,
    <<"n","o","t"," ","f","o","u","n","d">>,
    <<"C","o","n","f","i","d","e","n","c","e",":"," ","N","O","N","E","X","I","S","T","E","N","T">> }

Join(head, tail) ==
  IF head = << >> \/ tail = << >> THEN head \o tail
  ELSE head \o <<" ">> \o tail

\* the responses the extractors are called with
Contents == {Join(head, tail) : head \in HandleParts, tail \in ConfidenceParts}

\* what extract_username and extract_confidence_level return for each response
UsernameOf == [c \in Contents |-> extract_username(c)]

ConfidenceLevelOf == [c \in Contents |-> extract_confidence_level(c)]

\* a searcher is constructed and handed a response
InitExtract ==
  /\ Constructed(0)
  /\ max_concurrent = MaxConcurrent
  /\ rate_limit_window = 60
  /\ max_requests_per_window = 50
  /\ service = FullService
  /\ dpc = "direct"
  /\ NoActor
  /\ response_content \in Contents
  /\ extracted = << >>

\* self.extract_username(content) is called and returns
ExtractUsername ==
  /\ "username" \notin DOMAIN extracted
  /\ extracted' = Bind(extracted, "username", UsernameOf[response_content])
  /\ UNCHANGED <<searcherVars, actorVars, response_content>>

\* self.extract_confidence_level(content) is called and returns
ExtractConfidenceLevel ==
  /\ "confidence_level" \notin DOMAIN extracted
  /\ extracted' = Bind(extracted, "confidence_level",
                       ConfidenceLevelOf[response_content])
  /\ UNCHANGED <<searcherVars, actorVars, response_content>>

NextExtract ==
  \/ ExtractUsername
  \/ ExtractConfidenceLevel

SpecExtract == InitExtract /\ [][NextExtract]_vars

(* ------------------------------- main() -------------------------------- *)

\* the longest wallet list a run of the Actor is given
MaxInput == 2

\* the runs of the Actor, one after the other on the same key-value store
MaxRuns == 2

\* the largest batchLimit of an input
MaxBatchLimit == 1

\* the most calls of push_data that raise
MaxPushFaults == 2

CHECKPOINT_INTERVAL == 10

\* generate_input_hash: the digest of the sorted, joined wallets depends on
\* which wallets the list holds and not on their order; the digest itself is
\* taken to tell different sets apart
generate_input_hash(ws) == {ws[i] : i \in 1..Len(ws)}

\* the lists parse_input returns: no wallet twice
Inputs == {SubSeq(AllWallets, 1, k) : k \in 0..MaxInput}

\* the record save_checkpoint stores (its counts and statistics left out)
Snapshot ==
  [processed_wallets |-> processed_wallets,
   input_hash |-> generate_input_hash(all_wallets)]

\* [w for w in all_wallets if w not in processed_wallets]
Unprocessed(ws, processed) == SelectSeq(ws, LAMBDA w : w \notin processed)

\* wallets_to_process[:batch_limit] when a limit is set and exceeded
Limited(ws, limit) ==
  IF limit > 0 /\ Len(ws) > limit THEN SubSeq(ws, 1, limit) ELSE ws

\* the Actor is started on a store without a checkpoint
InitMain ==
  /\ Constructed(0)
  /\ max_concurrent = MaxConcurrent
  /\ rate_limit_window = 60
  /\ max_requests_per_window = 50
  /\ service = FullService
  /\ dpc = "direct"
  /\ NoExtraction
  /\ NoActor

\* main() up to load_checkpoint: the input is read, the checkpoint cleared on
\* request (clear_checkpoint swallows a failure of the store), the list parsed
Main(input, resume, limit, clear) ==
  /\ mpc \in {"idle", "ended", "raised"}
  /\ runs < MaxRuns
  /\ runs' = runs + 1
  /\ all_wallets' = input
  /\ resume_from_checkpoint' = resume
  /\ batch_limit' = limit
  /\ key_value_store' \in
       IF clear THEN {None, key_value_store} ELSE {key_value_store}
  /\ checkpoint' = None
  /\ processed_wallets' = {}
  /\ wallets_to_process' = << >>
  /\ checkpoint_counter' = 0
  /\ on_result_pc' = << >>
  /\ mpc' = IF input = << >> THEN "ended" ELSE "load"
  /\ UNCHANGED <<searcherVars, extractVars, dataset, push_faults>>

\* main() from load_checkpoint to the call of search_wallets: the checkpoint
\* is loaded (None when the store fails), taken over when its hash is the
\* input's, and the wallets left are cut to the batch limit; with none left
\* the checkpoint is cleared and main() returns
LoadCheckpoint ==
  /\ mpc = "load"
  /\ \E loaded \in IF resume_from_checkpoint
                   THEN {key_value_store, None} ELSE {None} :
       LET processed ==
             IF loaded # None
                /\ loaded.input_hash = generate_input_hash(all_wallets)
             THEN loaded.processed_wallets ELSE {}
           todo == Limited(Unprocessed(all_wallets, processed), batch_limit)
       IN  /\ checkpoint' = loaded
           /\ processed_wallets' = processed
           /\ wallets_to_process' = todo
           /\ on_result_pc' = [i \in 1..Len(todo) |-> "todo"]
           /\ IF todo = << >>
              THEN /\ key_value_store' \in {None, key_value_store}
                   /\ mpc' = "ended"
              ELSE /\ key_value_store' = key_value_store
                   /\ mpc' = "search"
  /\ UNCHANGED <<searcherVars, extractVars, runs, all_wallets,
                 resume_from_checkpoint, batch_limit, checkpoint_counter,
                 dataset, push_faults>>

Searching(i) == mpc = "search" /\ i \in DOMAIN on_result_pc

\* an on_result that counts the wallet as processed before it pushes
OnResult_eager(i) ==
  /\ Searching(i)
  /\ on_result_pc[i] = "todo"
  /\ on_result_pc' = [on_result_pc EXCEPT ![i] = "push"]
  /\ processed_wallets' = processed_wallets \cup {wallets_to_process[i]}
  /\ UNCHANGED <<searcherVars, extractVars, runs, mpc, all_wallets,
                 resume_from_checkpoint, batch_limit, key_value_store,
                 checkpoint, wallets_to_process, checkpoint_counter, dataset,
                 push_faults>>

\* search_wallets calls on_result with the verdict of a wallet: the record is
\* built and push_data awaited
OnResult(i) ==
  /\ Searching(i)
  /\ on_result_pc[i] = "todo"
  /\ on_result_pc' = [on_result_pc EXCEPT ![i] = "push"]
  /\ UNCHANGED <<searcherVars, extractVars, runs, mpc, all_wallets,
                 resume_from_checkpoint, batch_limit, key_value_store,
                 checkpoint, processed_wallets, wallets_to_process,
                 checkpoint_counter, dataset, push_faults>>

\* the dataset stores the record
PushData(i) ==
  /\ Searching(i)
  /\ on_result_pc[i] \in {"push", "push_again"}
  /\ dataset' = dataset \cup {wallets_to_process[i]}
  /\ on_result_pc' = [on_result_pc EXCEPT
                        ![i] = IF @ = "push" THEN "pushed" ELSE "pushed_again"]
  /\ UNCHANGED <<searcherVars, extractVars, runs, mpc, all_wallets,
                 resume_from_checkpoint, batch_limit, key_value_store,
                 checkpoint, processed_wallets, wallets_to_process,
                 checkpoint_counter, push_faults>>

\* push_data returns: the wallet is processed, and every CHECKPOINT_INTERVAL
\* results the checkpoint is saved (save_checkpoint swallows a failure)
PushReturns(i) ==
  /\ Searching(i)
  /\ on_result_pc[i] \in {"pushed", "pushed_again"}
  /\ processed_wallets' = processed_wallets \cup {wallets_to_process[i]}
  /\ checkpoint_counter' = checkpoint_counter + 1
  /\ key_value_store' \in
       IF checkpoint_counter' % CHECKPOINT_INTERVAL = 0
       THEN {[processed_wallets |-> processed_wallets',
              input_hash |-> generate_input_hash(all_wallets)],
             key_value_store}
       ELSE {key_value_store}
  /\ on_result_pc' = [on_result_pc EXCEPT ![i] = "done"]
  /\ UNCHANGED <<searcherVars, extractVars, runs, mpc, all_wallets,
                 resume_from_checkpoint, batch_limit, checkpoint,
                 wallets_to_process, dataset, push_faults>>

\* push_data raises, the record stored or not: out of the first call of
\* on_result the exception ends the wallet's task, out of the second it
\* leaves search_wallets
PushRaises(i) ==
  /\ Searching(i)
  /\ on_result_pc[i] \in {"push", "pushed", "push_again", "pushed_again"}
  /\ push_faults < MaxPushFaults
  /\ push_faults' = push_faults + 1
  /\ IF on_result_pc[i] \in {"push", "pushed"}
     THEN /\ on_result_pc' = [on_result_pc EXCEPT ![i] = "raised"]
          /\ mpc' = mpc
     ELSE /\ on_result_pc' = [on_result_pc EXCEPT ![i] = "raised_again"]
          /\ mpc' = "save_on_error"
  /\ UNCHANGED <<searcherVars, extractVars, runs, all_wallets,
                 resume_from_checkpoint, batch_limit, key_value_store,
                 checkpoint, processed_wallets, wallets_to_process,
                 checkpoint_counter, dataset>>

\* search_wallets calls on_result again, with the error verdict of the task
\* that raised
OnResultAgain(i) ==
  /\ Searching(i)
  /\ on_result_pc[i] = "raised"
  /\ on_result_pc' = [on_result_pc EXCEPT ![i] = "push_again"]
  /\ UNCHANGED <<searcherVars, extractVars, runs, mpc, all_wallets,
                 resume_from_checkpoint, batch_limit, key_value_store,
                 checkpoint, processed_wallets, wallets_to_process,
                 checkpoint_counter, dataset, push_faults>>

\* search_wallets returns: the final checkpoint is saved
SaveFinal ==
  /\ mpc = "search"
  /\ \A i \in DOMAIN on_result_pc : on_result_pc[i] = "done"
  /\ key_value_store' \in {Snapshot, key_value_store}
  /\ mpc' = "saved"
  /\ UNCHANGED <<searcherVars, extractVars, runs, all_wallets,
                 resume_from_checkpoint, batch_limit, checkpoint,
                 processed_wallets, wallets_to_process, checkpoint_counter,
                 dataset, on_result_pc, push_faults>>

\* search_wallets raised: the checkpoint is saved and the exception raised on
SaveOnError ==
  /\ mpc = "save_on_error"
  /\ key_value_store' \in {Snapshot, key_value_store}
  /\ mpc' = "raised"
  /\ UNCHANGED <<searcherVars, extractVars, runs, all_wallets,
                 resume_from_checkpoint, batch_limit, checkpoint,
                 processed_wallets, wallets_to_process, checkpoint_counter,
                 dataset, on_result_pc, push_faults>>

\* the end of main(): the checkpoint is cleared once every wallet of the input
\* is processed
RunComplete ==
  /\ mpc = "saved"
  /\ key_value_store' \in
       IF Cardinality(processed_wallets) >= Len(all_wallets)
       THEN {None, key_value_store} ELSE {key_value_store}
  /\ mpc' = "ended"
  /\ UNCHANGED <<searcherVars, extractVars, runs, all_wallets,
                 resume_from_checkpoint, batch_limit, checkpoint,
                 processed_wallets, wallets_to_process, checkpoint_counter,
                 dataset, on_result_pc, push_faults>>

NextMain ==
  \/ \E input \in Inputs, resume \in BOOLEAN, limit \in 0..MaxBatchLimit,
        clear \in BOOLEAN : Main(input, resume, limit, clear)
  \/ LoadCheckpoint
  \/ \E i \in 1..MaxInput : OnResult(i)
  \/ \E i \in 1..MaxInput : PushData(i)
  \/ \E i \in 1..MaxInput : PushReturns(i)
  \/ \E i \in 1..MaxInput : PushRaises(i)
  \/ \E i \in 1..MaxInput : OnResultAgain(i)
  \/ SaveFinal
  \/ SaveOnError
  \/ RunComplete

SpecMain == InitMain /\ [][NextMain]_vars

(* -------------------------------- claims ------------------------------- *)

\* the tasks whose search_wallet has built its SearchResult
Built == {w \in Tasks : result[w] # Unset}

\* every verdict the run has produced so far
Verdicts ==
  {result[w] : w \in Built}
    \cup {results[i] : i \in 1..Len(results)}
    \cup UNION {{delivered[w][k] : k \in 1..Len(delivered[w])} : w \in Tasks}

\* the tasks inside the async with block
Holders == {w \in Tasks : pc[w] \notin {"none", "new", "sem_wait", "done"}}

ConfidenceScale == {"None", "Low", "Medium", "High"}

\* the confidence the extractor reads from each raw_response of the ownership
\* agent
ExtractedFrom ==
  [text \in OwnershipTexts \cup {<< >>} |-> extract_confidence_level(text)]

\* C1: when search_wallets has returned, it has returned one verdict per input
\* wallet, in number and by wallet, and on_result was called exactly once for
\* each wallet.
C1_Cardinality ==
  dpc = "returned" =>
    /\ Len(results) = Len(wallets)
    /\ \A w \in Tasks : \E i \in 1..Len(results) : results[i].wallet = wallets[w]
    /\ \A w \in Tasks : Len(delivered[w]) = 1

\* C2: search_wallets never raises because of one wallet, and a task that
\* ended with an exception is turned into the degraded verdict
\* {post_exists false, no handle, confidence None, error text}.
C2_NeverRaises ==
  /\ dpc # "raised"
  /\ \A w \in Tasks :
       (w <= Len(results) /\ IsException(batch_results[w])) =>
         /\ results[w].post_exists = FALSE
         /\ results[w].confidence = "None"
         /\ results[w].error = batch_results[w].exception

\* C3: once the existence agent has reported post_exists = false for a wallet,
\* agent_analyze_ownership has not been and is not called for it, and the
\* verdict carries the raw text the existence agent returned.
C3_ShortCircuit ==
  \A w \in DOMAIN post_exists :
    (post_exists[w] = FALSE) =>
      /\ own_calls[w] = 0
      /\ pc[w] \notin {"a2_limiter", "a2_send", "a2_call", "a2_sleep", "a2_done"}
      /\ w \in Built =>
           /\ result[w].post_exists = FALSE
           /\ result[w].raw_response = agent1_response[w]

\* C3 happens: one wallet got an ambiguous answer, another ran out of
\* attempts, and both have their verdict.
C3_Witness ==
  \E v, w \in Built :
    /\ post_exists[v] = FALSE /\ post_exists[w] = FALSE
    /\ agent1_response[v] = Lower(T_unsure)
    /\ "existence" \in exhausted[w]

\* C4: in every verdict, post_exists = false implies no handle and the
\* confidence None.
C4_NotFoundShape ==
  \A v \in Verdicts :
    (v.post_exists = FALSE) =>
      (v.twitter_handle = NoText /\ v.confidence = "None")

\* C4 happens: the returned list holds a verdict of the pipeline and a verdict
\* of the exception path, both with post_exists = false.
C4_Witness ==
  /\ dpc = "returned"
  /\ \E i, j \in 1..Len(results) :
       /\ ~results[i].post_exists /\ results[i].error = NoText
       /\ ~results[j].post_exists /\ results[j].error = CallbackError

\* C5: the confidence of every verdict is one of None, Low, Medium, High.
C5_ClosedScale == \A v \in Verdicts : v.confidence \in ConfidenceScale

\* C6: a verdict for a wallet whose post exists and whose ownership agent
\* gave no handle has post_exists true, no handle, an error, and as
\* confidence the one extracted from the response, or Low when none was.
C6_DegradedShape ==
  \A w \in Built :
    (post_exists[w] = TRUE /\ ownership_result[w].username = NoText) =>
      /\ result[w].post_exists = TRUE
      /\ result[w].twitter_handle = NoText
      /\ result[w].error # NoText
      /\ result[w].confidence =
           IF ExtractedFrom[ownership_result[w].raw_response] # "null"
           THEN ExtractedFrom[ownership_result[w].raw_response]
           ELSE "Low"

\* C7: the verdict of a wallet for which an agent ran out of attempts has
\* its error set.
C7_ExhaustedIsError ==
  \A w \in Built : (exhausted[w] # {}) => (result[w].error # NoText)

\* the texts an agent that ran out of attempts reports
ExistenceErrorTexts ==
  {ErrorPrefix \o e.text : e \in Exceptions} \cup {MaxRetriesText}

OwnershipErrorTexts == {e.text : e \in Exceptions} \cup {MaxRetriesText}

\* C8: an agent call always ends with a return value: a (bool, text) pair of
\* the existence agent, a dict with username, confidence and raw_response of
\* the ownership agent; after the attempts ran out the value is the degraded
\* one (no post, no username) and carries the error text.
C8_AgentsReturn ==
  \A w \in Tasks :
    /\ pc[w] = "a1_done" =>
         /\ w \in DOMAIN post_exists \cap DOMAIN agent1_response
         /\ post_exists[w] \in BOOLEAN
    /\ pc[w] = "a2_done" =>
         {"username", "confidence", "raw_response"} \subseteq
           DOMAIN ownership_result[w]
    /\ "existence" \in exhausted[w] =>
         (post_exists[w] = FALSE /\ agent1_response[w] \in ExistenceErrorTexts)
    /\ "ownership" \in exhausted[w] =>
         /\ ownership_result[w].username = NoText
         /\ "error" \in DOMAIN ownership_result[w]
         /\ ownership_result[w].error \in OwnershipErrorTexts

\* C8 happens: the ownership agent has returned after its last attempt ended
\* with an exception.
C8_Witness ==
  \E w \in Tasks :
    /\ pc[w] = "a2_done"
    /\ "ownership" \in exhausted[w]
    /\ ownership_result[w].error # MaxRetriesText

H_holder99 == <<"@","h","o","l","d","e","r","9","9">>

\* C9: a wallet whose post exists and whose ownership agent gave the handle h
\* with confidence c gets the verdict {true, "@" + h, c} without error; and
\* when WALLET_A is answered "false" and WALLET_B "true" and then
\* "Username: @holder99 / confidence: high", the list returned is
\* {WALLET_A, false, none, None} and {WALLET_B, true, "@holder99", High}.
C9_OwnerVerdict ==
  /\ \A w \in Built :
       (post_exists[w] = TRUE /\ ownership_result[w].username # NoText) =>
         /\ result[w].wallet = wallets[w]
         /\ result[w].post_exists = TRUE
         /\ result[w].twitter_handle = <<"@">> \o ownership_result[w].username
         /\ result[w].confidence = ownership_result[w].confidence
         /\ result[w].error = NoText
  /\ ( /\ dpc = "returned"
       /\ wallets = <<"WALLET_A", "WALLET_B">>
       /\ agent1_response[1] = T_false
       /\ agent1_response[2] = T_true
       /\ ownership_result[2] # Unset
       /\ ownership_result[2].raw_response = T_holder
       /\ \A w \in Tasks : ~IsException(batch_results[w]) )
     => results =
          << [wallet |-> "WALLET_A", post_exists |-> FALSE,
              twitter_handle |-> NoText, confidence |-> "None",
              raw_response |-> T_false, error |-> NoText],
             [wallet |-> "WALLET_B", post_exists |-> TRUE,
              twitter_handle |-> H_holder99, confidence |-> "High",
              raw_response |-> T_holder, error |-> NoText] >>

\* C9 happens: the run of the two wallets has returned.
C9_Witness ==
  /\ dpc = "returned"
  /\ wallets = <<"WALLET_A", "WALLET_B">>
  /\ agent1_response[1] = T_false
  /\ agent1_response[2] = T_true
  /\ ownership_result[2] # Unset
  /\ ownership_result[2].raw_response = T_holder
  /\ \A w \in Tasks : ~IsException(batch_results[w])
  /\ Len(results) = 2

\* C10: at most max_concurrent tasks are inside the semaphore at any time, and
\* no task has more than one call to the service outstanding.
C10_Gate ==
  /\ Cardinality(Holders) <= max_concurrent
  /\ \A w \in Tasks : calls[w] <= 1

\* C10 happens: the gate is full with two tasks, one of them in a call to the
\* service, and a third task waits at it.
C10_Witness ==
  /\ max_concurrent = 2
  /\ Cardinality(Holders) = 2
  /\ \E w \in Holders : calls[w] = 1
  /\ \E w \in Tasks : pc[w] = "sem_wait"

\* the sub-batch a wallet falls in when the list is cut, in input order, into
\* groups of 2 x max_concurrent
SubBatch(w) == (w - 1) \div (2 * max_concurrent)

\* C11: the wallets being processed all belong to one sub-batch of
\* 2 x max_concurrent consecutive wallets, and a wallet of a later sub-batch
\* has not started as long as a wallet of an earlier one has not ended.
C11_Sequential ==
  /\ \A v, w \in Tasks :
       (pc[v] \notin {"none", "done"} /\ pc[w] \notin {"none", "done"}) =>
         SubBatch(v) = SubBatch(w)
  /\ \A v, w \in Tasks :
       (SubBatch(v) < SubBatch(w) /\ pc[w] # "none") => pc[v] = "done"

\* C11 happens: with a cap of 1 the third wallet, alone in the second
\* sub-batch, is being processed after the first two have ended, one of them
\* with an exception.
C11_Witness ==
  /\ max_concurrent = 1
  /\ Len(wallets) = 3
  /\ pc[3] \notin {"none", "new", "done"}
  /\ pc[1] = "done" /\ pc[2] = "done"
  /\ \E v \in {1, 2} : IsException(batch_results[v])

\* C12: once on_progress has been called for a sub-batch, and once a wallet of
\* a later sub-batch has started, every wallet of the sub-batch has had
\* on_result called and completed (its task has ended).
C12_CallbackAwaited ==
  /\ \A w \in Tasks :
       (Len(progress) > SubBatch(w)) =>
         (pc[w] = "done" /\ delivered[w] # << >>)
  /\ \A v, w \in Tasks :
       (SubBatch(v) < SubBatch(w) /\ pc[w] # "none") =>
         (pc[v] = "done" /\ delivered[v] # << >>)

\* C12 happens: on_progress has been called for the first sub-batch, and the
\* wallet of the second is suspended in its asynchronous callback.
C12_Witness ==
  /\ Len(progress) = 1
  /\ Len(wallets) = 3
  /\ pc[3] = "cb_await"

\* the sub-batches all of whose wallets have ended
CompletedSubBatches ==
  {SubBatch(w) : w \in {v \in Tasks :
     \A u \in Tasks : SubBatch(u) = SubBatch(v) => pc[u] = "done"}}

\* C13: the k-th call of on_progress reports the number of wallets in the
\* first k sub-batches and the length N of the list, the counts strictly
\* increasing; when the run has ended, on_progress has been called once for
\* each completed sub-batch and its last call reported (N, N).
C13_Progress ==
  /\ \A k \in 1..Len(progress) :
       /\ progress[k] =
            <<Min(k * 2 * max_concurrent, Len(wallets)), Len(wallets)>>
       /\ k > 1 => progress[k][1] > progress[k - 1][1]
  /\ dpc \in {"returned", "raised"} =>
       /\ Len(progress) = Cardinality(CompletedSubBatches)
       /\ wallets # << >> =>
            /\ progress # << >>
            /\ progress[Len(progress)] = <<Len(wallets), Len(wallets)>>

\* C14: the list returned holds the sub-batches in input order and, within a
\* sub-batch, the verdicts in the order in which their wallets completed. The
\* list being built has the verdict of wallets[k] at position k, so the order
\* of completion is the order of the list exactly when a wallet ends only
\* after the wallets of its sub-batch placed before it have ended.
C14_CompletionOrder ==
  [][ /\ \A k \in 1..Len(results') : results'[k].wallet = wallets[k]
      /\ \A i, j \in Tasks :
           ( /\ SubBatch(i) = SubBatch(j)
             /\ i < j
             /\ pc[j] # "done"
             /\ pc'[j] = "done" ) => pc[i] = "done" ]_vars

\* C15: every request sent to the service has its own call of
\* wait_for_rate_limit_window before it, which recorded a timestamp: within
\* one window, where no timestamp is dropped, the deque holds at least as
\* many timestamps as requests were sent.
C15_AcquirePerRequest == sent <= Len(request_times)

\* the timestamps recorded less than a window ago
InWindow ==
  {i \in 1..Len(request_times) : request_times[i] > now - rate_limit_window}

\* C16: at any time, the calls of wait_for_rate_limit_window that have
\* returned within less than rate_limit_window seconds are at most
\* max_requests_per_window, however the calls of the pipelines interleave.
C16_WindowCap == Cardinality(InWindow) <= max_requests_per_window

\* a task inside wait_for_rate_limit_window
InAcquire == {"a1_limiter", "a2_limiter"} \cup WindowSleep

\* C17: a call of wait_for_rate_limit_window that finds max_requests_per_window
\* or more timestamps left in the window, the oldest less than a window old,
\* is suspended for (oldest + window) - now seconds and returns no earlier;
\* any other call returns at once; a call returns by recording the current
\* time; and every call, of whichever pipeline, eventually returns.
C17_NeverStarves ==
  /\ [][\A w \in Tasks :
          LET times == Prune(request_times, now)
              full == /\ Len(times) >= max_requests_per_window
                      /\ times[1] + rate_limit_window > now
          IN  /\ (pc[w] \in {"a1_limiter", "a2_limiter"} /\ pc'[w] # pc[w]) =>
                   IF full
                   THEN /\ pc'[w] \in WindowSleep
                        /\ delay'[w] = (times[1] + rate_limit_window) - now
                   ELSE /\ pc'[w] \in {"a1_send", "a2_send"}
                        /\ request_times' = Append(times, now)
              /\ (pc[w] \in WindowSleep /\ pc'[w] # pc[w]) =>
                   /\ delay[w] = 0
                   /\ pc'[w] \in {"a1_send", "a2_send"}
                   /\ request_times' = Append(request_times, now)
              /\ (pc[w] \in WindowSleep /\ now' # now) =>
                   delay'[w] = IF delay[w] > 0 THEN delay[w] - 1 ELSE 0
     ]_vars
  /\ \A w \in 1..MaxPipelines :
       (w \in Tasks /\ pc[w] \in InAcquire) ~>
         (w \in Tasks /\ pc[w] \notin InAcquire)

\* C17 happens: with a cap of 2 and a window of 1 second, two calls have
\* returned at time 0 and the third, made at time 0, is suspended for a second.
C17_Witness ==
  /\ max_requests_per_window = 2
  /\ rate_limit_window = 1
  /\ request_times = <<0, 0>>
  /\ now = 0
  /\ \E w \in Tasks : pc[w] \in WindowSleep /\ delay[w] = 1

\* C18: a task suspended by handle_rate_limit_error sleeps for at most 300
\* seconds, whatever the attempt and the count of consecutive rejections.
\* (The other sleep of the agents lasts (attempt + 1) * 2 seconds.)
C18_DelayCap ==
  \A w \in Tasks : pc[w] \in {"a1_sleep", "a2_sleep"} => delay[w] <= 300

\* min(60 * 2^(attempt - 1), 300), for the attempts 1, 2, 3, ...
CappedBackoff(att) ==
  IF att = 1 THEN 60 ELSE IF att = 2 THEN 120 ELSE IF att = 3 THEN 240 ELSE 300

C20_Counter ==
  [][ /\ \A w \in Tasks :
           (ExistenceReply(w) \/ OwnershipReply(w)) =>
             consecutive_rate_limits' = 0
      /\ \A w \in Tasks :
           RateLimited(w) =>
             consecutive_rate_limits' = consecutive_rate_limits + 1
      /\ \A w \in Tasks :
           (OtherFailure(w) \/ ExistenceLastFailure(w)
              \/ OwnershipLastFailure(w)) =>
             consecutive_rate_limits' = consecutive_rate_limits
      /\ (consecutive_rate_limits' # consecutive_rate_limits) =>
           \E w \in Tasks :
             ExistenceReply(w) \/ OwnershipReply(w) \/ RateLimited(w)
    ]_vars

\* C20 happens: one pipeline sleeps after its quota rejection, and the
\* successful response of the other has set the counter back to zero.
C20_Witness ==
  \E v, w \in Tasks :
    /\ pc[v] = "a1_sleep" /\ delay[v] = 60
    /\ pc[w] = "a1_done" /\ exhausted[w] = {}
    /\ consecutive_rate_limits = 0

\* the rule the claims state for the existence answer: the lower-cased text
\* contains "true" and does not contain "false"
SaysTrue(text) ==
  /\ Contains(Lower(text), <<"t","r","u","e">>)
  /\ ~Contains(Lower(text), <<"f","a","l","s","e">>)

\* C21: for every text the existence agent receives, post_exists is true
\* exactly when the lower-cased text contains "true" and not "false", the
\* text the agent returns with it is the text it received, and the agent
\* produces no handle and no confidence.
C21_ExistenceParsing ==
  [][\A w \in Tasks : ExistenceReply(w) =>
       /\ \E text \in service.existence :
            /\ agent1_response'[w] = text
            /\ post_exists'[w] = SaysTrue(text)
       /\ ownership_result'[w] = ownership_result[w]
       /\ result'[w] = result[w]]_vars

\* the handle the extractor reads from each answer to the ownership query
HandleFrom == [text \in OwnershipTexts |-> extract_username(text)]

CouldNotParse ==
  <<"C","o","u","l","d"," ","n","o","t"," ","p","a","r","s","e"," ","u","s","e","r","n","a","m","e">>

\* the states of a task that sleeps between two attempts of an agent
Sleeping == {"a1_sleep", "a2_sleep"}

\* C24: a response the ownership agent cannot parse is final. The agent
\* returns on the attempt that received the response: without a handle the
\* degraded result with the error "Could not parse username", with a handle
\* and no confidence level the handle with confidence Medium. An agent goes
\* to another attempt only out of the sleep that follows an exception of the
\* service.
C24_ParseFinal ==
  [][\A w \in Tasks :
       /\ OwnershipReply(w) =>
            /\ pc'[w] = "a2_done"
            /\ sent' = sent
            /\ \E content \in service.ownership :
                 LET r == ownership_result'[w]
                 IN  /\ r.raw_response = content
                     /\ r.username = HandleFrom[content]
                     /\ (r.username = NoText) =
                          ("error" \in DOMAIN r /\ r.error = CouldNotParse)
                     /\ (r.username # NoText
                         /\ ExtractedFrom[content] = "null") =>
                          r.confidence = "Medium"
       /\ attempt'[w] > attempt[w] => pc[w] \in Sleeping
       /\ (pc'[w] \in Sleeping /\ pc[w] \notin Sleeping) =>
            faults' = faults + 1
     ]_vars

\* C24 happens: two ownership agents have returned after one request each,
\* one with the degraded result of a response without a handle, the other,
\* just now, with the handle of a response without a confidence level.
C24_Witness ==
  \E v, w \in Tasks :
    /\ pc[v] = "done" /\ pc[w] = "a2_done"
    /\ Get(ownership_result[v], "raw_response", NoText) = T_unsure
    /\ Get(ownership_result[v], "error", NoText) = CouldNotParse
    /\ ownership_result[w].raw_response = T_bob
    /\ ownership_result[w].confidence = "Medium"
    /\ sent = 4
    /\ faults = 0

\* the texts of the exceptions of the service that report a quota rejection:
\* by the status RESOURCE_EXHAUSTED, or by "429", "rate limit", "too many
\* requests" or "resource_exhausted" in the text, whatever the case
QuotaTexts ==
  { <<"q","u","o","t","a">>, <<"H","T","T","P"," ","4","2","9">>,
    <<"R","a","t","e"," ","l","i","m","i","t"," ","h","i","t">>,
    <<"T","o","o"," ","M","a","n","y"," ","R","e","q","u","e","s","t","s">>,
    <<"g","r","p","c"," ","R","E","S","O","U","R","C","E","_","E","X","H","A","U","S","T","E","D">> }

\* C26: an exception is a quota rejection when its status is
\* RESOURCE_EXHAUSTED or its text contains one of the four indicators. A
\* quota rejection raises the counter of the limiter and sleeps once, for the
\* backoff of handle_rate_limit_error (a multiple of 60 seconds) with no
\* linear part added; any other exception on attempt k (from 1) that is not
\* the last sleeps exactly 2 * k seconds and leaves the counter alone. After
\* either sleep the agent goes on without sleeping again.
C26_Classification ==
  /\ []({e.text : e \in QuotaExceptions} = QuotaTexts)
  /\ []({e.text : e \in OtherExceptions} = {<<"t","i","m","e","o","u","t">>})
  /\ [][\A w \in Tasks :
          /\ RateLimited(w) =>
               /\ consecutive_rate_limits' = consecutive_rate_limits + 1
               /\ delay'[w] >= 60
               /\ delay'[w] % 60 = 0
          /\ OtherFailure(w) =>
               /\ attempt[w] + 1 < max_retries
               /\ delay'[w] = 2 * (attempt[w] + 1)
               /\ consecutive_rate_limits' = consecutive_rate_limits
          /\ Wake(w) => pc'[w] \notin Sleeping
       ]_vars

\* C26 happens: a first attempt was rejected for quota and the second failed
\* otherwise: the task sleeps 2 * 2 seconds and the counter still reads 1.
C26_Witness ==
  \E w \in Tasks :
    /\ pc[w] \in Sleeping
    /\ attempt[w] = 1
    /\ delay[w] = 4
    /\ consecutive_rate_limits = 1
    /\ faults = 2

\* C27: an agent never sleeps after its final attempt: a task that sleeps
\* between two attempts of an agent has an attempt left to make.
C27_NoFinalSleep ==
  \A w \in Tasks : pc[w] \in Sleeping => attempt[w] + 1 < max_retries

\* C28: the list search_wallets builds and returns is in input order: its
\* i-th verdict is the verdict of the i-th input wallet, error verdicts
\* included, and the returned list has a verdict at every position.
C28_InputOrder ==
  /\ \A i \in 1..Len(results) : results[i].wallet = wallets[i]
  /\ dpc = "returned" => Len(results) = Len(wallets)

\* C28 happens: search_wallets has returned three verdicts from two
\* sub-batches, the first an error verdict for a task that raised, the last
\* the verdict of a wallet with a post.
C28_Witness ==
  /\ dpc = "returned"
  /\ Len(results) = 3
  /\ max_concurrent = 1
  /\ results[1].error = CallbackError
  /\ results[3].post_exists

\* C29: search_wallets returns exactly one verdict per wallet, and every
\* verdict on_result was called with for a wallet is the verdict the returned
\* list holds for that wallet, whether or not on_result raised.
C29_SameVerdict ==
  dpc = "returned" =>
    /\ Len(results) = Len(wallets)
    /\ \A w \in Tasks :
         \A k \in 1..Len(delivered[w]) : delivered[w][k] = results[w]

\* the states of a task that is about to send, or has sent, a request
Requesting == {"a1_send", "a1_call", "a2_send", "a2_call"}

\* C25: a call of an agent sends at most max_retries requests, quota
\* rejections included (a request is the one of attempt 0, 1 or 2, and a task
\* has at most one outstanding), and search_wallets eventually returns.
C25_RetryCeiling ==
  /\ [](\A w \in Tasks :
          /\ pc[w] \in Requesting => attempt[w] < max_retries
          /\ calls[w] <= 1)
  /\ <>(dpc = "returned")

\* search_wallets eventually returns or raises
Terminates == <>(dpc \in {"returned", "raised"})

\* the examples the claims give for the extractors
HandleExample == <<"U","s","e","r","n","a","m","e",":"," ","@","a","b","c","X","Y","Z","_","1"," ","p","o","s","t","e","d"," ","i","t">>
NoHandleExample == <<"n","o"," ","h","a","n","d","l","e"," ","m","e","n","t","i","o","n","e","d"," ","h","e","r","e">>
ConfidenceExample ==
  <<"t","h","i","s"," ","i","s"," ","a"," ","h","i","g","h"," ","c","o","n","f","i","d","e","n","c","e",","," ","t","h","o","u","g","h"," ","s","o","m","e","w","h","a","t"," ","u","n","c","l","e","a","r",","," ","m","a","t","c","h">>

\* C22: the handle rules are tried in the order username:, @ mention,
\* handle:, twitter:, and the first rule that matches gives the handle;
\* "Username: @abcXYZ_1 posted it" yields abcXYZ_1 and "no handle mentioned
\* here" yields no handle.
C22_HandlePriority ==
  "username" \in DOMAIN extracted =>
    LET matching == {n \in 1..Len(HandlePatterns) :
                       SearchHandle(response_content, HandlePatterns[n]) # NoText}
    IN  /\ matching = {} => extracted.username = NoText
        /\ \A n \in matching :
             (\A h \in matching : n <= h) =>
               extracted.username =
                 SearchHandle(response_content, HandlePatterns[n])
        /\ response_content = HandleExample =>
             extracted.username = <<"a","b","c","X","Y","Z","_","1">>
        /\ response_content = NoHandleExample => extracted.username = NoText

\* the level of the first explicit pattern that matches, "null" if none does
ExplicitLevel(s) ==
  LET levels == [n \in 1..Len(ConfidencePatterns) |->
                   LevelName(SearchLevel(s, ConfidencePatterns[n]))]
  IN  IF levels[1] # "null" THEN levels[1]
      ELSE IF levels[2] # "null" THEN levels[2]
      ELSE levels[3]

\* C23: the confidence is High when a High keyword occurs as a whole word
\* anywhere in the text, else Medium, Low, None by their keywords in that
\* order, so a text with keywords of several families reads as the highest;
\* the explicit "confidence: <level>" and "level: <level>" patterns decide
\* only when no keyword occurs, and without either the result is absent.
C23_ConfidencePriority ==
  "confidence_level" \in DOMAIN extracted =>
    LET s == Lower(response_content)
        level == extracted.confidence_level
        high == HasWord(s, HighWords)
        medium == HasWord(s, MediumWords)
        low == HasWord(s, LowWords)
        none == HasWord(s, NoneWords)
    IN  /\ high => level = "High"
        /\ (~high /\ medium) => level = "Medium"
        /\ (~high /\ ~medium /\ low) => level = "Low"
        /\ (~high /\ ~medium /\ ~low /\ none) => level = "None"
        /\ (~high /\ ~medium /\ ~low /\ ~none) => level = ExplicitLevel(s)
        /\ response_content = ConfidenceExample => level = "High"

\* C23 happens: the extractor has read High from the text that holds "high"
\* and "somewhat".
C23_Witness ==
  /\ response_content = ConfidenceExample
  /\ "confidence_level" \in DOMAIN extracted
  /\ extracted.confidence_level = "High"

\* the run at hand took its processed set from a checkpoint of its own input
Resumed ==
  /\ checkpoint # None
  /\ checkpoint.input_hash = generate_input_hash(all_wallets)

====
